---- MODULE Spec2Model ----
(***************************************************************************)
(* A model of jimmc414/scheduler.                                          *)
(*                                                                         *)
(*   workflow_manager.py  Task, Workflow, WorkflowManager: the workflow    *)
(*                        registry, execute_workflow and execute_task.     *)
(*   scheduler.py         EnhancedAPScheduler: the Running/Stopped wrapper *)
(*                        around an APScheduler BackgroundScheduler with a *)
(*                        persistent SQLAlchemy job store.                 *)
(*                                                                         *)
(* The two objects share no state, so each has its own specification over  *)
(* the same initial state: Spec runs the WorkflowManager, SchedSpec runs   *)
(* the EnhancedAPScheduler.                                                *)
(***************************************************************************)
EXTENDS Integers, Sequences, FiniteSets, TLC

(***************************************************************************)
(* Bounds and input sets                                                   *)
(***************************************************************************)

\* Largest retry_count a task definition is given.
MaxRetry == 2

\* Task.retry_count is a plain int: nothing in the code rejects a negative
\* one. Tasks are given a negative count, no retry, one retry or the most.
RetryCounts == {0 - 1, 0, 1, MaxRetry}

\* Lengths of the task lists of the workflows that are registered.
WorkflowLengths == {0, 1, 2}

\* Task.output_files: no declared file, or two of them.
OutputFileLists == {<< >>, <<"out1", "out2">>}

\* Task.expected_exit_codes.
ExpectedSets == {{0}, {0 - 1, 0}}

\* Return codes of a process that ran to its end (-1: killed by signal 1).
ReturnCodes == {0 - 1, 0, 1}

\* How one call of subprocess.run ends.
OutcomeKinds == {"exit", "timeout", "error"}

\* The id under which workflows are registered, and the ids execute_workflow
\* is called with.
RegisteredIds == {"w1"}
WorkflowIds == {"w1", "w2"}

\* The executions of execute_workflow (threads of the executor pool).
Runs == {"r1", "r2"}

\* Job ids and trigger types add_job is called with.
JobIds == {"a", "b"}
TriggerTypes == {"cron", "interval", "date", "weekly"}

\* Longest list of pending jobs the stopped BackgroundScheduler is given.
MaxPending == 2

VARIABLES
    workflows,  \* WorkflowManager.workflows: id -> sequence of Task
    run,        \* per execution: position in execute_workflow / execute_task
    is_running, \* EnhancedAPScheduler.is_running
    jobs,       \* EnhancedAPScheduler.jobs: job dicts kept while stopped
    state,      \* BackgroundScheduler.state
    pending,    \* BackgroundScheduler._pending_jobs
    store,      \* ids of the rows of the SQLAlchemyJobStore
    paused,     \* ids of the rows whose next_run_time is None
    ppaused,    \* ids of the pending jobs whose next_run_time is None
    pool,       \* the thread pool of the default executor
    log         \* the last call on the EnhancedAPScheduler and how it ended

wfvars == <<workflows, run>>
schedvars == <<is_running, jobs, state, pending, store, paused, ppaused, pool,
               log>>
vars == <<workflows, run, is_running, jobs, state, pending, store, paused,
          ppaused, pool, log>>

(***************************************************************************)
(* workflow_manager.py: Task, Workflow                                     *)
(***************************************************************************)

\* A Task as the dataclass constructs it: current_retry defaults to 0.
Task ==
    [retry_count : RetryCounts,
     continue_on_failure : BOOLEAN,
     output_files : OutputFileLists,
     expected_exit_codes : ExpectedSets,
     current_retry : {0}]

\* Workflow.tasks: an ordered list of Task.
Workflow == UNION {[1..n -> Task] : n \in WorkflowLengths}

\* The values execute_task returns, by return site:
\*   "pass"        return True   (lines 120, 125)
\*   "not_ready"   return False  (line 123)
\*   "exhausted"   return False  (line 136)
\*   "fallthrough" return False  (line 137)
ReturnSites == {"pass", "not_ready", "exhausted", "fallthrough"}

Success(site) == site = "pass"

\* What one execution remembers of a task of its workflow.
NoHistory ==
    [attempts |-> 0,        \* calls of task.execute
     sleeps |-> 0,          \* calls of time.sleep(retry_delay)
     entry |-> 0 - 1,       \* current_retry when execute_task was entered
     ok_seen |-> FALSE,     \* an attempt returned an expected exit code
     abnormal_pass |-> FALSE, \* a timed out / unspawned attempt was accepted
     unready |-> FALSE,     \* a declared output file did not become ready
     returned |-> "none"]   \* return site of execute_task

IdleRun ==
    [pc |-> "idle", wf |-> "none", idx |-> 0, file |-> 0,
     ready |-> {}, tmp |-> 0,
     hist |-> << >>]

\* WorkflowManager.__init__: an empty registry; no execution in progress.
WfInit ==
    /\ workflows = [w \in {} |-> << >>]
    /\ run = [r \in Runs |-> IdleRun]

\* No call of execute_workflow is in progress in r.
Finished(r) == run[r].pc \in {"idle", "done", "not_found"}

\* The Task object the execution r is working on.
CurTask(r) == workflows[run[r].wf][run[r].idx]

SetRun(r, rec) == run' = [run EXCEPT ![r] = rec]

SetHist(rec, field, val) ==
    [rec EXCEPT !.hist[rec.idx] = [@ EXCEPT ![field] = val]]

SetRetry(r, val) ==
    workflows' = [workflows EXCEPT ![run[r].wf][run[r].idx].current_retry = val]

(***************************************************************************)
(* workflow_manager.py: the pieces of execute_task and execute_workflow    *)
(***************************************************************************)

\* Task.execute: the exit code of the ExecutionResult. A timeout and any other
\* exception of subprocess.run are both reported as exit code -1.
ExitCodeOf(kind, code) == IF kind = "exit" THEN code ELSE 0 - 1

\* execute_task, line 113: the loop condition.
WhileCond(t) == t.current_retry <= t.retry_count

\* execute_task, line 115.
Expected(t, code) == code \in t.expected_exit_codes

ShouldRetryOff(t) == t.current_retry <= t.retry_count

ShouldRetryNever(t) == FALSE

\* execute_task, line 130.
ShouldRetry(t) == t.current_retry < t.retry_count

NextRetryStuck(c) == c

\* execute_task, line 131: the value stored by current_retry += 1.
NextRetry(c) == c + 1

\* utils.wait_for_file(path, timeout=60): TRUE iff the path becomes ready
\* (exists and is not locked) within the timeout. ready is the set of paths
\* that do.
WaitForFile(path, ready) == path \in ready

FilesVerdictIgnored(files_ready) == "pass"

FilesVerdictFlipped(files_ready) == IF files_ready THEN "not_ready" ELSE "pass"

\* execute_task, lines 118-123: the result of monitor_output_files decides.
FilesVerdict(files_ready) == IF files_ready THEN "pass" ELSE "not_ready"

BreakOnFailureNever(t, success) == FALSE

BreakOnFailureAlways(t, success) == ~success

\* execute_workflow, lines 103-107: leave the loop on a failure of a task
\* that does not continue on failure.
BreakOnFailure(t, success) == ~success /\ ~t.continue_on_failure

AfterSleepNextTask(rec) == [rec EXCEPT !.pc = "for", !.idx = @ + 1]

\* execute_task, lines 133 and 113: after the sleep, back to the loop test.
AfterSleep(rec) == [rec EXCEPT !.pc = "while"]

\* execute_task returns at the given site: back in execute_workflow, line 103.
Return(rec, site) ==
    [SetHist(rec, "returned", site) EXCEPT
        !.pc = "returned", !.file = 0, !.ready = {}, !.tmp = 0]

FilesNotReadyRetried(rec) == [rec EXCEPT !.pc = "load", !.file = 0, !.ready = {}]

\* execute_task, lines 118-123: monitor_output_files has returned False.
FilesNotReady(rec) == Return(rec, FilesVerdict(FALSE))

(***************************************************************************)
(* workflow_manager.py: the operations                                     *)
(***************************************************************************)

\* WorkflowManager.add_workflow: workflows[workflow.id] = workflow. A workflow
\* is defined once, before it is executed, and reused by every execution.
AddWorkflow(w, tasks) ==
    /\ w \notin DOMAIN workflows
    /\ \A r \in Runs : Finished(r)
    /\ workflows' = [x \in DOMAIN workflows \cup {w} |->
                        IF x = w THEN tasks ELSE workflows[x]]
    /\ UNCHANGED run
    /\ UNCHANGED schedvars

RegistryAfterSetDefault(w) ==
    [x \in DOMAIN workflows \cup {w} |->
        IF x \in DOMAIN workflows THEN workflows[x] ELSE << >>]

\* get_workflow, lines 92-93: self.workflows.get(workflow_id) leaves the
\* registry as it is.
RegistryAfterGet(w) == workflows

\* execute_workflow, lines 96-100: look the workflow up; return if missing.
StartWorkflow(r, w) ==
    /\ Finished(r)
    /\ IF w \in DOMAIN workflows
          THEN SetRun(r, [IdleRun EXCEPT
                   !.pc = "for", !.wf = w, !.idx = 1,
                   !.hist = [i \in 1..Len(workflows[w]) |-> NoHistory]])
          ELSE SetRun(r, [IdleRun EXCEPT !.pc = "not_found", !.wf = w])
    /\ workflows' = RegistryAfterGet(w)
    /\ UNCHANGED schedvars

\* execute_workflow, lines 101-102 and 110: the next task of the list is
\* handed to execute_task, or the list is exhausted.
ForLoop(r) ==
    /\ run[r].pc = "for"
    /\ IF run[r].idx > Len(workflows[run[r].wf])
          THEN SetRun(r, [run[r] EXCEPT !.pc = "done"])
          ELSE SetRun(r, [SetHist(run[r], "entry", CurTask(r).current_retry)
                            EXCEPT !.pc = "while"])
    /\ UNCHANGED workflows
    /\ UNCHANGED schedvars

\* execute_task, lines 113-114 and 137: the loop test; task.execute is
\* called, or the loop is left and False returned.
WhileTest(r) ==
    /\ run[r].pc = "while"
    /\ IF WhileCond(CurTask(r))
          THEN SetRun(r, [SetHist(run[r], "attempts",
                                  run[r].hist[run[r].idx].attempts + 1)
                            EXCEPT !.pc = "execute"])
          ELSE SetRun(r, Return(run[r], "fallthrough"))
    /\ UNCHANGED workflows
    /\ UNCHANGED schedvars

\* Task.execute returns (lines 32-62) and execute_task branches on the exit
\* code (lines 115-136). kind and code are how the process ended; ready is
\* the set of declared output files that become ready. A process that
\* timed out or was not spawned has no return code (written -1 here).
Execute(r, kind, code, ready) ==
    /\ run[r].pc = "execute"
    /\ kind # "exit" => code = 0 - 1
    /\ LET t == CurTask(r)
           ec == ExitCodeOf(kind, code)
           rec == run[r]
       IN IF Expected(t, ec)
            THEN LET seen == [SetHist(rec, "ok_seen", TRUE) EXCEPT
                                !.hist[rec.idx].abnormal_pass =
                                    @ \/ kind # "exit"]
                 IN IF t.output_files # << >>
                      THEN SetRun(r, [seen EXCEPT
                               !.pc = "monitor", !.file = 1, !.ready = ready,
                               !.hist[rec.idx].unready =
                                   \E k \in DOMAIN t.output_files :
                                       t.output_files[k] \notin ready])
                      ELSE /\ ready = {}
                           /\ SetRun(r, Return(seen, "pass"))
            ELSE /\ ready = {}
                 /\ IF ShouldRetry(t)
                       THEN SetRun(r, [rec EXCEPT !.pc = "load"])
                       ELSE SetRun(r, Return(rec, "exhausted"))
    /\ UNCHANGED workflows
    /\ UNCHANGED schedvars

\* Task.monitor_output_files, lines 65-73: wait for the next file of the
\* list; the first one that is not ready ends the loop.
Monitor(r) ==
    /\ run[r].pc = "monitor"
    /\ LET t == CurTask(r)
       IN IF ~WaitForFile(t.output_files[run[r].file], run[r].ready)
            THEN SetRun(r, FilesNotReady(run[r]))
            ELSE IF run[r].file = Len(t.output_files)
                   THEN SetRun(r, Return(run[r], FilesVerdict(TRUE)))
                   ELSE SetRun(r, [run[r] EXCEPT !.file = @ + 1])
    /\ UNCHANGED workflows
    /\ UNCHANGED schedvars

\* execute_task, line 131: current_retry += 1 reads the attribute ...
Load(r) ==
    /\ run[r].pc = "load"
    /\ SetRun(r, [run[r] EXCEPT !.pc = "store", !.tmp = CurTask(r).current_retry])
    /\ UNCHANGED workflows
    /\ UNCHANGED schedvars

\* ... and writes it back.
Store(r) ==
    /\ run[r].pc = "store"
    /\ SetRetry(r, NextRetry(run[r].tmp))
    /\ SetRun(r, [run[r] EXCEPT !.pc = "sleep", !.tmp = 0])
    /\ UNCHANGED schedvars

\* execute_task, line 133: time.sleep(task.retry_delay), for a retry_delay
\* that is a non-negative number of seconds.
Sleep(r) ==
    /\ run[r].pc = "sleep"
    /\ SetRun(r, AfterSleep(SetHist(run[r], "sleeps",
                                   run[r].hist[run[r].idx].sleeps + 1)))
    /\ UNCHANGED workflows
    /\ UNCHANGED schedvars

\* execute_workflow, lines 103-110: the result of execute_task.
Returned(r) ==
    /\ run[r].pc = "returned"
    /\ IF BreakOnFailure(CurTask(r), Success(run[r].hist[run[r].idx].returned))
          THEN SetRun(r, [run[r] EXCEPT !.pc = "done"])
          ELSE SetRun(r, [run[r] EXCEPT !.pc = "for", !.idx = @ + 1])
    /\ UNCHANGED workflows
    /\ UNCHANGED schedvars

\* One execution at a time: the caller runs execute_workflow to its end.
SeqRuns == {"r1"}

WfNext ==
    \/ \E w \in RegisteredIds, tasks \in Workflow : AddWorkflow(w, tasks)
    \/ \E r \in SeqRuns :
        \/ \E w \in WorkflowIds : StartWorkflow(r, w)
        \/ ForLoop(r)
        \/ WhileTest(r)
        \/ \E kind \in OutcomeKinds, code \in ReturnCodes,
              ready \in SUBSET {"out1", "out2"} :
                Execute(r, kind, code, ready)
        \/ Monitor(r)
        \/ Load(r)
        \/ Store(r)
        \/ Sleep(r)
        \/ Returned(r)

(***************************************************************************)
(* scheduler.py: EnhancedAPScheduler                                       *)
(***************************************************************************)

\* The elements of a finite set as a list (the order a job store returns
\* its rows in is not modelled).
RECURSIVE SeqOf(_)
SeqOf(S) == IF S = {} THEN << >>
            ELSE LET x == CHOOSE y \in S : TRUE IN <<x>> \o SeqOf(S \ {x})

Range(q) == {q[i] : i \in DOMAIN q}

\* How often id occurs in the list q.
Count(q, id) == Cardinality({i \in DOMAIN q : q[i] = id})

\* BackgroundScheduler.get_jobs(): the pending jobs of a stopped scheduler,
\* the rows of the job store of a started one.
SchedulerGetJobs == IF state = "STOPPED" THEN pending ELSE SeqOf(store)

\* EnhancedAPScheduler.get_jobs, lines 111-131: the ids listed, and the
\* exception the call ends in. The dicts stop() keeps have no
\* 'next_run_time' key, so the stopped branch fails on its first entry.
GetJobs ==
    IF is_running
      THEN [err |-> "none", ids |-> SchedulerGetJobs]
      ELSE IF jobs = << >>
             THEN [err |-> "none", ids |-> << >>]
             ELSE [err |-> "KeyError", ids |-> << >>]

\* BackgroundScheduler.add_job on a started scheduler: the store after the
\* jobs of q are added one by one, up to the first id it already holds.
RECURSIVE AddAll(_, _)
AddAll(q, st) ==
    IF q = << >> THEN [err |-> "none", store |-> st]
    ELSE IF Head(q) \in st THEN [err |-> "ConflictingIdError", store |-> st]
    ELSE AddAll(Tail(q), st \cup {Head(q)})

NoCall ==
    [op |-> "init", err |-> "none", id |-> "none", ttype |-> "none",
     from |-> FALSE, result |-> << >>,
     prev |-> "init", prevfrom |-> FALSE, preverr |-> "none",
     prevresult |-> << >>, listed |-> << >>,
     removed |-> {}, pausedby |-> {}]

\* The record of a call: its name, its exception, is_running when it was
\* made, the same of the call before it, what get_jobs() listed when the
\* scheduler was last stopped, the ids remove_job was called with while the
\* scheduler held a job of that id (until add_job adds the id again), and the
\* ids paused by pause_job (until resume_job or remove_job succeeds on them).
Call(op, err) ==
    [op |-> op, err |-> err, id |-> "none", ttype |-> "none",
     from |-> is_running, result |-> << >>,
     prev |-> log.op, prevfrom |-> log.from, preverr |-> log.err,
     prevresult |-> log.result, listed |-> log.listed,
     removed |-> log.removed, pausedby |-> log.pausedby]

CallOn(op, err, id) == [Call(op, err) EXCEPT !.id = id]

\* The scheduler holds a job of this id: as a row of the job store or as a
\* pending job.
Holds(id) == id \in store \cup Range(pending)

\* EnhancedAPScheduler.__init__, lines 33-37. The job store is a database
\* file: it holds the jobs an earlier process left in it.
SchedInit ==
    /\ is_running = FALSE
    /\ jobs = << >>
    /\ state = "STOPPED"
    /\ pending = << >>
    /\ store \in SUBSET JobIds
    /\ paused = {}
    /\ ppaused = {}
    /\ pool = "open"
    /\ log = NoCall

RestoreSkipped(q, st) == [err |-> "none", store |-> st \cup Range(q)]

\* start, lines 64-65: self.scheduler.add_job(**job) for each kept job.
Restore(q, st) == AddAll(q, st)

\* EnhancedAPScheduler.start, lines 59-70. BackgroundScheduler.start adds the
\* pending jobs to the store and fails on an id the store already holds,
\* before the scheduler counts as started. The executors are started, but a
\* pool that was shut down stays shut down.
Start ==
    /\ UNCHANGED wfvars
    /\ UNCHANGED pool
    /\ IF is_running
         THEN /\ log' = Call("start", "none")
              /\ UNCHANGED <<is_running, jobs, state, pending, store,
                             paused, ppaused>>
         ELSE LET started == AddAll(pending, store)
                  nowpaused ==
                      paused \cup ((started.store \ store) \cap ppaused)
              IN IF started.err # "none"
                   THEN /\ store' = started.store
                        /\ paused' = nowpaused
                        /\ log' = Call("start", started.err)
                        /\ UNCHANGED <<is_running, jobs, state, pending,
                                       ppaused>>
                   ELSE LET restored == Restore(jobs, started.store)
                        IN /\ state' = "RUNNING"
                           /\ pending' = << >>
                           /\ ppaused' = {}
                           /\ is_running' = TRUE
                           /\ store' = restored.store
                           /\ paused' = nowpaused
                           /\ jobs' = IF restored.err = "none" THEN << >> ELSE jobs
                           /\ log' = Call("start", restored.err)

\* EnhancedAPScheduler.stop, lines 72-91. shutdown() shuts the pools of the
\* executors down; the rows of the job store stay.
Stop ==
    /\ UNCHANGED wfvars
    /\ IF is_running
         THEN /\ jobs' = SchedulerGetJobs
              /\ state' = "STOPPED"
              /\ is_running' = FALSE
              /\ pool' = "shutdown"
              /\ log' = [Call("stop", "none") EXCEPT !.listed = GetJobs.ids]
              /\ UNCHANGED <<pending, store, paused, ppaused>>
         ELSE /\ log' = Call("stop", "none")
              /\ UNCHANGED <<is_running, jobs, state, pending, store,
                             paused, ppaused, pool>>

ValidTriggerAny(ttype) == TRUE

\* add_job, lines 96-104: the trigger types that are known.
ValidTrigger(ttype) == ttype \in {"cron", "interval", "date"}

\* EnhancedAPScheduler.add_job, lines 93-106. A stopped BackgroundScheduler
\* appends the job to its pending list without looking at the id; a started
\* one adds it to the store, which refuses an id it holds.
AddJob(id, ttype) ==
    /\ UNCHANGED wfvars
    /\ IF ~ValidTrigger(ttype)
         THEN /\ log' = [CallOn("add_job", "ValueError", id) EXCEPT
                            !.ttype = ttype]
              /\ UNCHANGED <<is_running, jobs, state, pending, store,
                             paused, ppaused, pool>>
         ELSE IF state = "STOPPED"
                THEN /\ Len(pending) < MaxPending
                     /\ pending' = Append(pending, id)
                     /\ log' = [CallOn("add_job", "none", id) EXCEPT
                                   !.ttype = ttype, !.removed = @ \ {id}]
                     /\ UNCHANGED <<is_running, jobs, state, store,
                                    paused, ppaused, pool>>
                ELSE /\ store' = AddAll(<<id>>, store).store
                     /\ log' = [CallOn("add_job", AddAll(<<id>>, store).err, id)
                                   EXCEPT !.ttype = ttype,
                                          !.removed =
                                              IF id \in store THEN @
                                              ELSE @ \ {id}]
                     /\ UNCHANGED <<is_running, jobs, state, pending,
                                    paused, ppaused, pool>>

\* The list q without its first occurrence of id.
RECURSIVE RemoveFirst(_, _)
RemoveFirst(q, id) ==
    IF q = << >> THEN << >>
    ELSE IF Head(q) = id THEN Tail(q)
    ELSE <<Head(q)>> \o RemoveFirst(Tail(q), id)

\* BaseScheduler._lookup_job / remove_job: a stopped BackgroundScheduler
\* looks among its pending jobs only, a started one in its job store.
Found(id) == IF state = "STOPPED" THEN id \in Range(pending) ELSE id \in store

\* EnhancedAPScheduler.remove_job, lines 108-109.
RemoveJob(id) ==
    /\ UNCHANGED wfvars
    /\ log' = [CallOn("remove_job",
                      IF Found(id) THEN "none" ELSE "JobLookupError", id)
                 EXCEPT !.removed = IF Holds(id) THEN @ \cup {id} ELSE @,
                        !.pausedby = IF Found(id) THEN @ \ {id} ELSE @]
    /\ IF state = "STOPPED"
         THEN /\ pending' = RemoveFirst(pending, id)
              /\ ppaused' = ppaused \ {id}
              /\ UNCHANGED <<is_running, jobs, state, store, paused, pool>>
         ELSE /\ store' = store \ {id}
              /\ paused' = paused \ {id}
              /\ UNCHANGED <<is_running, jobs, state, pending, ppaused, pool>>

ListJobsDraining ==
    /\ UNCHANGED wfvars
    /\ log' = [Call("get_jobs", GetJobs.err) EXCEPT !.result = GetJobs.ids]
    /\ jobs' = << >>
    /\ UNCHANGED <<is_running, state, pending, store, paused, ppaused, pool>>

\* EnhancedAPScheduler.get_jobs, lines 111-131, called.
ListJobs ==
    /\ UNCHANGED wfvars
    /\ log' = [Call("get_jobs", GetJobs.err) EXCEPT !.result = GetJobs.ids]
    /\ UNCHANGED <<is_running, jobs, state, pending, store, paused, ppaused,
                   pool>>

\* EnhancedAPScheduler.pause_job, lines 133-134: the job's next_run_time is
\* set to None.
PauseJob(id) ==
    /\ UNCHANGED wfvars
    /\ IF ~Found(id)
         THEN /\ log' = CallOn("pause_job", "JobLookupError", id)
              /\ UNCHANGED <<paused, ppaused>>
         ELSE /\ log' = [CallOn("pause_job", "none", id) EXCEPT
                            !.pausedby = @ \cup {id}]
              /\ IF state = "STOPPED"
                   THEN ppaused' = ppaused \cup {id} /\ UNCHANGED paused
                   ELSE paused' = paused \cup {id} /\ UNCHANGED ppaused
    /\ UNCHANGED <<is_running, jobs, state, pending, store, pool>>

\* EnhancedAPScheduler.resume_job, lines 136-137: the next run time is
\* computed anew; a job whose trigger has no further run time (exhausted: a
\* date that has passed) is removed.
ResumeJob(id, exhausted) ==
    /\ UNCHANGED wfvars
    /\ IF ~Found(id)
         THEN /\ ~exhausted
              /\ log' = CallOn("resume_job", "JobLookupError", id)
              /\ UNCHANGED <<pending, store, paused, ppaused>>
         ELSE /\ log' = [CallOn("resume_job", "none", id) EXCEPT
                            !.pausedby = @ \ {id}]
              /\ IF state = "STOPPED"
                   THEN /\ ppaused' = ppaused \ {id}
                        /\ pending' = IF exhausted
                                        THEN RemoveFirst(pending, id)
                                        ELSE pending
                        /\ UNCHANGED <<store, paused>>
                   ELSE /\ paused' = paused \ {id}
                        /\ store' = IF exhausted THEN store \ {id} ELSE store
                        /\ UNCHANGED <<pending, ppaused>>
    /\ UNCHANGED <<is_running, jobs, state, pool>>

\* A job may be dispatched: the scheduler is started and the job has a next
\* run time.
Due(id) == state = "RUNNING" /\ id \in store \ paused

\* The firing loop of the BackgroundScheduler (started at line 61) finds the
\* job due and submits it to its executor, whose pool refuses work once it
\* was shut down; a job whose trigger is exhausted by this run (a date
\* trigger) is removed from the store.
Fire(id, exhausted) ==
    /\ UNCHANGED wfvars
    /\ Due(id)
    /\ log' = CallOn("fire",
                     IF pool = "open" THEN "none" ELSE "RuntimeError", id)
    /\ store' = IF exhausted THEN store \ {id} ELSE store
    /\ UNCHANGED <<is_running, jobs, state, pending, paused, ppaused, pool>>

SchedNext ==
    \/ Start
    \/ Stop
    \/ \E id \in JobIds, ttype \in TriggerTypes : AddJob(id, ttype)
    \/ \E id \in JobIds : RemoveJob(id)
    \/ ListJobs
    \/ \E id \in JobIds : PauseJob(id)
    \/ \E id \in JobIds, exhausted \in BOOLEAN : ResumeJob(id, exhausted)
    \/ \E id \in JobIds, exhausted \in BOOLEAN : Fire(id, exhausted)

(***************************************************************************)
(* Specifications                                                          *)
(***************************************************************************)

Init == WfInit /\ SchedInit

\* The scheduler as constructed on an empty job store.
WfSpecInit == Init /\ store = {}

\* The WorkflowManager, one execution at a time (the scheduler is left as
\* constructed).
Spec == WfSpecInit /\ [][WfNext]_vars

\* The EnhancedAPScheduler.
SchedSpec == Init /\ [][SchedNext]_vars

\* A step of the execution r of execute_workflow.
RunStep(r) ==
    \/ ForLoop(r)
    \/ WhileTest(r)
    \/ \E kind \in OutcomeKinds, code \in ReturnCodes,
          ready \in SUBSET {"out1", "out2"} :
            Execute(r, kind, code, ready)
    \/ Monitor(r)
    \/ Load(r)
    \/ Store(r)
    \/ Sleep(r)
    \/ Returned(r)

\* One execution at a time, in which the thread of execute_workflow keeps
\* running: every subprocess.run ends (by itself or by its timeout), every
\* wait for a file ends (wait_for_file has a timeout of 60), every sleep ends.
FairSpec ==
    WfSpecInit /\ [][WfNext]_vars /\ \A r \in SeqRuns : WF_vars(RunStep(r))

\* The workflows of one task.
ConcWorkflow == [1..1 -> Task]

\* Two executions of execute_workflow in flight at once, as two instances of
\* one job on the scheduler's thread pool (max_instances is 3): the threads
\* share the WorkflowManager and its Task objects, and a step of one may
\* come between any two steps of the other.
ConcNext ==
    \/ \E w \in RegisteredIds, tasks \in ConcWorkflow : AddWorkflow(w, tasks)
    \/ \E r \in Runs :
        \/ \E w \in WorkflowIds : StartWorkflow(r, w)
        \/ ForLoop(r)
        \/ WhileTest(r)
        \/ \E kind \in OutcomeKinds, code \in ReturnCodes,
              ready \in SUBSET {"out1", "out2"} :
                Execute(r, kind, code, ready)
        \/ Monitor(r)
        \/ Load(r)
        \/ Store(r)
        \/ Sleep(r)
        \/ Returned(r)

ConcSpec == WfSpecInit /\ [][ConcNext]_vars

(***************************************************************************)
(* Properties of the WorkflowManager (checked under Spec)                  *)
(***************************************************************************)

\* The tasks of the workflow the execution r works on, or worked on last.
Positions(r) == DOMAIN run[r].hist
H(r, i) == run[r].hist[i]
T(r, i) == workflows[run[r].wf][i]
Failed(r, i) == H(r, i).returned \in ReturnSites \ {"pass"}
\* execute_task is running on task i in r.
InTask(r, i, pcs) == run[r].idx = i /\ run[r].pc \in pcs

\* C1. Retry bound: one call of execute_task on a task with retry_count =
\* R >= 0 makes at most R+1 attempts; when the k-th attempt starts exactly
\* k-1 sleeps have been made, and a sleep is only made after an attempt
\* whose exit code was not expected.
C1_RetryBound ==
    \A r \in Runs : \A i \in Positions(r) :
        T(r, i).retry_count >= 0 =>
            /\ H(r, i).attempts <= T(r, i).retry_count + 1
            /\ H(r, i).sleeps <= H(r, i).attempts
            /\ InTask(r, i, {"execute", "load", "store", "sleep"}) =>
                   H(r, i).sleeps = H(r, i).attempts - 1
            /\ InTask(r, i, {"load", "store", "sleep"}) => ~H(r, i).ok_seen
            /\ H(r, i).sleeps > 0 /\ H(r, i).returned # "none" =>
                   H(r, i).sleeps = H(r, i).attempts - 1

C1_Witness ==
    \E r \in Runs : \E i \in Positions(r) :
        /\ T(r, i).retry_count >= 1
        /\ H(r, i).attempts = T(r, i).retry_count + 1
        /\ H(r, i).sleeps = T(r, i).retry_count
        /\ H(r, i).returned # "none"

\* C2. Whenever execute_task is entered, the task's current_retry is 0.
C2_EntryReset ==
    \A r \in Runs : \A i \in Positions(r) : H(r, i).entry \in {0 - 1, 0}

\* C3. Abort on failure: once execute_task has returned failure for a task
\* whose continue_on_failure is false, no later task of the list is entered
\* or attempted in that execution.
C3_AbortOnFailure ==
    \A r \in Runs : \A i \in Positions(r) : \A j \in Positions(r) :
        (i < j /\ Failed(r, i) /\ ~T(r, i).continue_on_failure) =>
            H(r, j).attempts = 0 /\ H(r, j).entry = 0 - 1

C3_Witness ==
    \E r \in Runs :
        /\ run[r].pc = "done"
        /\ Len(run[r].hist) = 2
        /\ H(r, 1).attempts >= 1
        /\ Failed(r, 1)
        /\ ~T(r, 1).continue_on_failure
        /\ H(r, 2).attempts = 0

C5_OutputGating ==
    \A r \in Runs : \A i \in Positions(r) :
        H(r, i).unready =>
            \/ H(r, i).returned = "not_ready"
            \/ H(r, i).returned = "none" /\ InTask(r, i, {"monitor"})

C5_Witness ==
    \E r \in Runs : \E i \in Positions(r) :
        /\ H(r, i).unready
        /\ H(r, i).ok_seen
        /\ H(r, i).returned = "not_ready"
        /\ run[r].pc = "done"

\* C6. Exhausted retries: a call of execute_task entered with current_retry
\* = 0 on a task with retry_count = R >= 0, none of whose attempts returned
\* an expected exit code, has made exactly R+1 attempts when it returns, and
\* returns False.
C6_ExhaustedRetries ==
    \A r \in Runs : \A i \in Positions(r) :
        (/\ T(r, i).retry_count >= 0
         /\ H(r, i).entry = 0
         /\ H(r, i).returned # "none"
         /\ ~H(r, i).ok_seen) =>
            /\ H(r, i).attempts = T(r, i).retry_count + 1
            /\ Failed(r, i)

C6_Witness ==
    \E r \in Runs : \E i \in Positions(r) :
        /\ T(r, i).retry_count = 2
        /\ H(r, i).entry = 0
        /\ ~H(r, i).ok_seen
        /\ H(r, i).attempts = 3
        /\ H(r, i).returned = "exhausted"

\* C7. With one execution at a time, every task with retry_count >= 0 has
\* current_retry <= retry_count.
C7_RetryWithinCount ==
    \A w \in DOMAIN workflows : \A i \in DOMAIN workflows[w] :
        workflows[w][i].retry_count >= 0 =>
            workflows[w][i].current_retry <= workflows[w][i].retry_count

C7_Witness ==
    \E w \in DOMAIN workflows : \E i \in DOMAIN workflows[w] :
        /\ workflows[w][i].retry_count >= 1
        /\ workflows[w][i].current_retry = workflows[w][i].retry_count
        /\ \E r \in Runs : run[r].wf = w /\ InTask(r, i, {"sleep"})

\* C8. Strictly sequential: a task is entered or attempted only when every
\* task before it in the list has returned from execute_task, and only the
\* task the loop of execute_workflow is at is in execute_task.
C8_Sequential ==
    \A r \in Runs : \A j \in Positions(r) :
        /\ (H(r, j).entry # 0 - 1 \/ H(r, j).attempts > 0) =>
               /\ j <= run[r].idx
               /\ \A i \in Positions(r) : i < j => H(r, i).returned # "none"
        /\ (H(r, j).entry # 0 - 1 /\ H(r, j).returned = "none") =>
               InTask(r, j, {"while", "execute", "monitor", "load", "store",
                             "sleep"})

C8_Witness ==
    \E r \in Runs :
        /\ InTask(r, 2, {"execute"})
        /\ H(r, 1).sleeps >= 1
        /\ H(r, 1).returned = "not_ready"

\* C9. An attempt that times out, or whose process cannot be spawned, is a
\* failed attempt whatever the expected exit codes are: it is never taken
\* for an attempt with an expected exit code.
C9_AbnormalAttemptFails ==
    \A r \in Runs : \A i \in Positions(r) : ~H(r, i).abnormal_pass

\* C17. For a task entered with current_retry = 0 and retry_count = R >= 0,
\* execute_task makes at most R+1 attempts; it returns True exactly when one
\* of them returned an expected exit code and, at that attempt, the list of
\* output files was empty or every file of it became ready; and the first
\* attempt with an expected exit code is the last attempt of the call.
C17_ResultOfExecuteTask ==
    \A r \in Runs : \A i \in Positions(r) :
        (H(r, i).entry = 0 /\ T(r, i).retry_count >= 0) =>
            /\ H(r, i).attempts <= T(r, i).retry_count + 1
            /\ H(r, i).returned # "none" =>
                   (Success(H(r, i).returned) <=>
                        (H(r, i).ok_seen /\ ~H(r, i).unready))
            /\ (H(r, i).ok_seen /\ H(r, i).returned = "none") =>
                   InTask(r, i, {"monitor"})

C17_Witness ==
    \E r \in Runs : \E i \in Positions(r) :
        /\ H(r, i).entry = 0
        /\ T(r, i).retry_count >= 1
        /\ T(r, i).output_files # << >>
        /\ H(r, i).attempts = T(r, i).retry_count + 1
        /\ H(r, i).returned = "pass"

\* C19. A step of monitor_output_files changes no current_retry and makes
\* no attempt; the files before the one it is at were found ready, in list
\* order; when the file it is at is not ready, execute_task returns False
\* at once (whatever current_retry is), otherwise the next file of the list
\* is checked, or True is returned after the last one.
C19_ReadinessFailureFinal ==
    [][\A r \in Runs :
           (run[r].pc = "monitor" /\ run'[r] # run[r]) =>
               LET i == run[r].idx
                   k == run[r].file
                   files == T(r, i).output_files
               IN /\ workflows' = workflows
                  /\ run'[r].idx = i
                  /\ run'[r].hist[i].attempts = H(r, i).attempts
                  /\ run'[r].hist[i].sleeps = H(r, i).sleeps
                  /\ \A j \in 1..(k - 1) : files[j] \in run[r].ready
                  /\ IF files[k] \notin run[r].ready
                       THEN /\ run'[r].pc = "returned"
                            /\ run'[r].hist[i].returned = "not_ready"
                       ELSE IF k = Len(files)
                              THEN /\ run'[r].pc = "returned"
                                   /\ run'[r].hist[i].returned = "pass"
                              ELSE /\ run'[r].pc = "monitor"
                                   /\ run'[r].file = k + 1]_vars

C19_Witness ==
    \E r \in Runs : \E i \in Positions(r) :
        /\ InTask(r, i, {"returned"})
        /\ H(r, i).returned = "not_ready"
        /\ H(r, i).entry = 0
        /\ H(r, i).attempts = 1
        /\ T(r, i).current_retry = 0
        /\ T(r, i).retry_count >= 1

\* C18. With two executions of one workflow interleaved, for every task
\* with retry_count >= 0: current_retry stays <= retry_count, each run of
\* execute_task makes at most retry_count + 1 attempts, and the return after
\* the while loop (line 137) is not reached.
C18_ConcurrentRetryGuarantees ==
    \A r \in Runs : \A i \in Positions(r) :
        T(r, i).retry_count >= 0 =>
            /\ T(r, i).current_retry <= T(r, i).retry_count
            /\ H(r, i).attempts <= T(r, i).retry_count + 1
            /\ H(r, i).returned # "fallthrough"

\* Task i of the execution r has failed and ends the workflow.
Stopper(r, i) == Failed(r, i) /\ ~T(r, i).continue_on_failure

\* The execution r is over a workflow whose tasks have retry_count >= 0.
NonNegative(r) ==
    /\ run[r].wf \in DOMAIN workflows
    /\ \A i \in Positions(r) : T(r, i).retry_count >= 0

\* The execution r has ended after its last task, or at its first failed
\* task whose continue_on_failure is false, the tasks after it untouched.
Completed(r) ==
    /\ run[r].pc = "done"
    /\ \/ \A i \in Positions(r) :
              /\ H(r, i).returned # "none"
              /\ i < Len(run[r].hist) => ~Stopper(r, i)
       \/ \E i \in Positions(r) :
              /\ Stopper(r, i)
              /\ \A j \in Positions(r) :
                     /\ j < i => H(r, j).returned # "none" /\ ~Stopper(r, j)
                     /\ j > i => /\ H(r, j).entry = 0 - 1
                                 /\ H(r, j).attempts = 0
                                 /\ H(r, j).returned = "none"

\* C20. An execution of execute_workflow over tasks with retry_count >= 0,
\* in which every attempt, wait and sleep ends: execute_task is called on a
\* task only if it was not called on it before in this execution, and on the
\* tasks in list order; the execution eventually ends; and it ends after the
\* last task or at the first failed task whose continue_on_failure is false.
C20_WorkflowTerminates ==
    /\ [][\A r \in Runs :
              (run[r].pc = "for" /\ run'[r].pc = "while") =>
                  /\ run'[r].idx = run[r].idx
                  /\ H(r, run[r].idx).entry = 0 - 1
                  /\ H(r, run[r].idx).attempts = 0
                  /\ \A j \in Positions(r) :
                         j > run[r].idx => H(r, j).entry = 0 - 1]_vars
    /\ [](\A r \in Runs :
              (NonNegative(r) /\ run[r].pc = "done") => Completed(r))
    /\ \A r \in SeqRuns :
           (NonNegative(r) /\ ~Finished(r)) ~> Completed(r)

C20_Witness ==
    \E r \in Runs :
        /\ NonNegative(r)
        /\ Completed(r)
        /\ Len(run[r].hist) = 2
        /\ H(r, 1).sleeps >= 1
        /\ Failed(r, 1)
        /\ H(r, 2).returned = "pass"

\* C22. A call of execute_workflow with an id that is not in the registry
\* returns at once: no task is entered or attempted, the registry and with
\* it every current_retry are as before, and the call has ended (no step of
\* it follows; the next step of the caller is a new call).
C22_UnknownWorkflow ==
    [][\A r \in Runs :
           /\ (Finished(r) /\ run'[r] # run[r]
                 /\ run'[r].wf \notin DOMAIN workflows) =>
                  /\ run'[r].pc = "not_found"
                  /\ run'[r].hist = << >>
                  /\ run'[r].idx = 0
                  /\ workflows' = workflows
           /\ (run[r].pc = "not_found" /\ run'[r] # run[r]) =>
                  /\ run'[r].pc \in {"not_found", "for"}
                  /\ run'[r].pc = "for" =>
                         run'[r].idx = 1 /\ run'[r].wf \in DOMAIN workflows]_vars

C22_Witness ==
    \E r \in Runs :
        /\ run[r].pc = "not_found"
        /\ run[r].wf = "w2"
        /\ run[r].hist = << >>
        /\ \E w \in DOMAIN workflows : \E i \in DOMAIN workflows[w] :
               workflows[w][i].current_retry >= 1

(***************************************************************************)
(* Properties of the EnhancedAPScheduler (checked under SchedSpec)         *)
(***************************************************************************)

\* C10. Jobs survive the lifecycle toggle: after stop() on a running
\* scheduler followed by start(), start() has ended without an exception,
\* the scheduler is running, and get_jobs() lists the ids it listed before
\* the stop(), each as often as before.
C10_JobsSurviveToggle ==
    (log.op = "start" /\ log.prev = "stop" /\ log.prevfrom) =>
        /\ log.err = "none"
        /\ is_running
        /\ GetJobs.err = "none"
        /\ \A id \in JobIds :
               Count(GetJobs.ids, id) = Count(log.listed, id)

\* What get_jobs() would answer now lists this id.
Listed(id) == GetJobs.err = "none" /\ id \in Range(GetJobs.ids)

\* The last step dispatched the job of this id to its executor.
Dispatched(id) == log.op = "fire" /\ log.id = id /\ log.err = "none"

\* C11. While the scheduler is stopped, get_jobs() ends without an error
\* and lists every job definition stop() has kept, each as often as it is
\* kept.
C11_StoppedListing ==
    ~is_running =>
        /\ GetJobs.err = "none"
        /\ \A id \in JobIds : Count(GetJobs.ids, id) = Count(jobs, id)

\* C12. After add_job has succeeded for an id, get_jobs() called next lists
\* that id, whether the scheduler is running or stopped.
C12_AddedIsListed ==
    (log.op = "add_job" /\ log.err = "none") => Listed(log.id)

\* C13. Once remove_job(id) was called on a job the scheduler holds, and
\* until add_job adds the id again, get_jobs() does not list the id and the
\* job is not dispatched; remove_job on an id the scheduler does not hold
\* raises the not-found error.
C13_RemovedForGood ==
    /\ \A id \in log.removed : ~Listed(id) /\ ~Dispatched(id)
    /\ (log.op = "remove_job" /\ log.id \notin log.removed) =>
           log.err = "JobLookupError"

\* C14. From pause_job(id) until the next resume_job(id) the job stays
\* listed by get_jobs() and is not dispatched.
C14_PausedRetained ==
    \A id \in log.pausedby : Listed(id) /\ ~Dispatched(id)

\* C15. add_job with a trigger whose type is none of cron, interval, date
\* raises the validation error, and the job store, the pending jobs, the
\* buffer of stop() and the Running/Stopped state are as before the call.
C15_BadTriggerNoMutation ==
    [][(log'.op = "add_job" /\ log'.ttype \notin {"cron", "interval", "date"})
           => /\ log'.err = "ValueError"
              /\ UNCHANGED <<is_running, jobs, state, pending, store, paused,
                             ppaused, pool>>]_vars

C15_Witness ==
    /\ log.op = "add_job"
    /\ log.ttype = "weekly"
    /\ log.err = "ValueError"
    /\ store # {}
    /\ jobs # << >>

\* C16. get_jobs() is a pure read: a call changes neither the job store, the
\* pending jobs, the buffer of stop() nor the Running/Stopped state, and a
\* call that follows a call of get_jobs() at once ends as that call did,
\* with the same entries.
C16_PureRead ==
    [][log'.op = "get_jobs"
           => /\ UNCHANGED <<is_running, jobs, state, pending, store, paused,
                             ppaused, pool>>
              /\ log.op = "get_jobs" =>
                     log'.result = log.result /\ log'.err = log.err]_vars

C16_Witness ==
    /\ log.op = "get_jobs"
    /\ log.prev = "get_jobs"
    /\ log.err = "none"
    /\ log.result # << >>
    /\ log.result = log.prevresult

\* C21. The scheduler is stopped at first; start() on a stopped scheduler
\* leaves it running with an empty buffer, stop() on a running one leaves it
\* stopped; start() on a running scheduler and stop() on a stopped one change
\* neither the Running/Stopped state, the jobs nor the buffer of stop().
C21_Lifecycle ==
    /\ ~is_running
    /\ [][/\ is_running' \in BOOLEAN
          /\ log'.op = "start" =>
                 IF is_running
                   THEN UNCHANGED <<is_running, jobs, state, pending, store,
                                    paused, ppaused>>
                   ELSE is_running' /\ jobs' = << >>
          /\ log'.op = "stop" =>
                 IF is_running
                   THEN ~is_running'
                   ELSE UNCHANGED <<is_running, jobs, state, pending, store,
                                    paused, ppaused>>]_vars

====
